---- MODULE Spec2Model ----
(***************************************************************************)
(* State-machine model of the Progress Tracking Agent:                     *)
(*   data_models.py  TopicProgressData.update_progress                     *)
(*   processor.py    ProgressProcessor (save_settings, get_settings,       *)
(*                   update_topic_progress, get_progress_summary)          *)
(*   main.py         the endpoints' mapping of ValueError to 400 / 404     *)
(*                                                                         *)
(* Numbers.  Scores and thresholds are whole percentages.  Values that the *)
(* code rounds to one decimal (average_score, average_score_all,           *)
(* overall_completion_percent) are kept in tenths: 725 stands for 72.5.    *)
(* An Optional value is a sequence of length at most one: <<>> is None.    *)
(***************************************************************************)
EXTENDS Integers, Sequences, FiniteSets, TLC

\* ---------------------------------------------------------------- bounds
MaxOps == 3          \* state-changing requests (events, settings saves) per run
MaxInterleaved == 1  \* requests handled while one summary awaits the LLM

\* ---------------------------------------------------------------- inputs
Students == {"s1", "s2"}
Topics == {"t1", "t2", "t3"}
\* topic ids are opaque: a student's topics are named in the order of first use
TopicOrder == <<"t1", "t2", "t3">>
\* the (student, topic) pairs events are reported for
Slots == {<<"s1", "t1">>, <<"s1", "t2">>, <<"s1", "t3">>, <<"s2", "t1">>}
EventTypes == {"quiz_attempted", "topic_completed", "session_duration_minutes",
               "needs_review", "resource_viewed"}
Scores == {60, 80}
Durations == {5}
AttemptCounts == {2}
Timestamps == {1}
Thresholds == {90}
Goals == {<<>>, <<"g1">>}

None == <<>>
Some(x) == <<x>>
IsNone(o) == o = <<>>
Val(o) == o[1]

DefaultThreshold == 80
CreatedAt == 0

\* ---------------------------------------------------------------- state
VARIABLES
    progress_db,          \* student_id -> insertion-ordered topic records
    student_settings_db,  \* student_id -> Optional StudentProgressSettings
    LLM_AVAILABLE,        \* fixed by the constructor
    llm_responds,         \* whether the text-generation service answers a call
                          \* (with a result or an error) or leaves it open
    pending,              \* Optional summary suspended in llm.ainvoke
    last,                 \* the last request handled and its outcome
    ops                   \* number of state-changing requests so far

vars == <<progress_db, student_settings_db, LLM_AVAILABLE, llm_responds, pending,
          last, ops>>

\* ------------------------------------------------------- data_models.py
\* StudentProgressSettings(student_id=...) with the field defaults
DefaultSettings(student_id) ==
    [student_id |-> student_id, success_threshold |-> DefaultThreshold,
     learning_goals |-> <<>>]

\* faulty variant: a new record counts its creation as an attempt
NewTopicProgressData_OneAttempt(topic_id) ==
    [topic_id |-> topic_id, status |-> "Not Started", attempts |-> 1,
     scores |-> <<>>, average_score |-> None, total_time_minutes |-> 0,
     last_activity_type |-> None, last_updated |-> CreatedAt]

\* TopicProgressData(topic_id=...) with the field defaults
NewTopicProgressData(topic_id) ==
    [topic_id |-> topic_id, status |-> "Not Started", attempts |-> 0,
     scores |-> <<>>, average_score |-> None, total_time_minutes |-> 0,
     last_activity_type |-> None, last_updated |-> CreatedAt]

RECURSIVE SumSeq(_)
SumSeq(s) == IF s = <<>> THEN 0 ELSE s[1] + SumSeq(Tail(s))

\* round(num / den, 1) in tenths, ties to even as Python's round()
Round1(num, den) ==
    LET q == (10 * num) \div den
        r == (10 * num) % den
    IN  IF 2 * r < den THEN q
        ELSE IF 2 * r > den THEN q + 1
        ELSE IF q % 2 = 0 THEN q ELSE q + 1

\* faulty variant: the mean cut to one decimal instead of rounded
MeanRounded_Truncated(xs) == (10 * SumSeq(xs)) \div Len(xs)

\* round(statistics.mean(xs), 1)
MeanRounded(xs) == Round1(SumSeq(xs), Len(xs))

\* faulty variant: an event without an attempt count adds no attempt
AttemptIncrement_DefaultZero(event) ==
    IF IsNone(event.details) THEN 0 ELSE Val(event.details)

\* event.details.get('attempts', 1) if event.details else 1
AttemptIncrement(event) ==
    IF IsNone(event.details) THEN 1 ELSE Val(event.details)

\* faulty variant: topic_completed does not override Needs Review
update_progress_KeepsReview(self, event) ==
    LET s0 == [self EXCEPT !.last_updated = event.timestamp,
                           !.last_activity_type = Some(event.event_type)]
        s1 == IF s0.status = "Not Started"
              THEN [s0 EXCEPT !.status = "In Progress"] ELSE s0
    IN  IF event.event_type = "quiz_attempted" /\ ~IsNone(event.score)
        THEN LET sc == Append(s1.scores, Val(event.score))
             IN  [s1 EXCEPT !.attempts = @ + AttemptIncrement(event),
                            !.scores = sc,
                            !.average_score =
                                IF sc # <<>> THEN Some(MeanRounded(sc)) ELSE None]
        ELSE IF event.event_type = "topic_completed"
        THEN IF s1.status = "Needs Review" THEN s1
             ELSE [s1 EXCEPT !.status = "Completed"]
        ELSE IF event.event_type = "session_duration_minutes"
                /\ ~IsNone(event.duration_minutes)
        THEN [s1 EXCEPT !.total_time_minutes = @ + Val(event.duration_minutes)]
        ELSE IF event.event_type = "needs_review"
        THEN [s1 EXCEPT !.status = "Needs Review"]
        ELSE s1

\* faulty variant: every event first sets the status to In Progress
update_progress_AlwaysInProgress(self, event) ==
    LET s1 == [self EXCEPT !.last_updated = event.timestamp,
                           !.last_activity_type = Some(event.event_type),
                           !.status = "In Progress"]
    IN  IF event.event_type = "quiz_attempted" /\ ~IsNone(event.score)
        THEN LET sc == Append(s1.scores, Val(event.score))
             IN  [s1 EXCEPT !.attempts = @ + AttemptIncrement(event),
                            !.scores = sc,
                            !.average_score =
                                IF sc # <<>> THEN Some(MeanRounded(sc)) ELSE None]
        ELSE IF event.event_type = "topic_completed"
        THEN [s1 EXCEPT !.status = "Completed"]
        ELSE IF event.event_type = "session_duration_minutes"
                /\ ~IsNone(event.duration_minutes)
        THEN [s1 EXCEPT !.total_time_minutes = @ + Val(event.duration_minutes)]
        ELSE IF event.event_type = "needs_review"
        THEN [s1 EXCEPT !.status = "Needs Review"]
        ELSE s1

\* faulty variant: the new score is put in front of the recorded ones
update_progress_Prepend(self, event) ==
    LET s0 == [self EXCEPT !.last_updated = event.timestamp,
                           !.last_activity_type = Some(event.event_type)]
        s1 == IF s0.status = "Not Started"
              THEN [s0 EXCEPT !.status = "In Progress"] ELSE s0
    IN  IF event.event_type = "quiz_attempted" /\ ~IsNone(event.score)
        THEN LET sc == <<Val(event.score)>> \o s1.scores
             IN  [s1 EXCEPT !.attempts = @ + AttemptIncrement(event),
                            !.scores = sc,
                            !.average_score =
                                IF sc # <<>> THEN Some(MeanRounded(sc)) ELSE None]
        ELSE IF event.event_type = "topic_completed"
        THEN [s1 EXCEPT !.status = "Completed"]
        ELSE IF event.event_type = "session_duration_minutes"
                /\ ~IsNone(event.duration_minutes)
        THEN [s1 EXCEPT !.total_time_minutes = @ + Val(event.duration_minutes)]
        ELSE IF event.event_type = "needs_review"
        THEN [s1 EXCEPT !.status = "Needs Review"]
        ELSE s1

\* faulty variant: an event of a kind without a branch is ignored altogether
update_progress_KnownKindsOnly(self, event) ==
    LET s0 == [self EXCEPT !.last_updated = event.timestamp,
                           !.last_activity_type = Some(event.event_type)]
        s1 == IF s0.status = "Not Started"
              THEN [s0 EXCEPT !.status = "In Progress"] ELSE s0
    IN  IF event.event_type = "quiz_attempted" /\ ~IsNone(event.score)
        THEN LET sc == Append(s1.scores, Val(event.score))
             IN  [s1 EXCEPT !.attempts = @ + AttemptIncrement(event),
                            !.scores = sc,
                            !.average_score = Some(MeanRounded(sc))]
        ELSE IF event.event_type = "quiz_attempted"
        THEN s1
        ELSE IF event.event_type = "topic_completed"
        THEN [s1 EXCEPT !.status = "Completed"]
        ELSE IF event.event_type = "session_duration_minutes"
        THEN IF ~IsNone(event.duration_minutes)
             THEN [s1 EXCEPT !.total_time_minutes = @ + Val(event.duration_minutes)]
             ELSE s1
        ELSE IF event.event_type = "needs_review"
        THEN [s1 EXCEPT !.status = "Needs Review"]
        ELSE self

\* faulty variant: a quiz without a score counts as an attempt
update_progress_CountsUnscored(self, event) ==
    LET s0 == [self EXCEPT !.last_updated = event.timestamp,
                           !.last_activity_type = Some(event.event_type)]
        s1 == IF s0.status = "Not Started"
              THEN [s0 EXCEPT !.status = "In Progress"] ELSE s0
    IN  IF event.event_type = "quiz_attempted" /\ ~IsNone(event.score)
        THEN LET sc == Append(s1.scores, Val(event.score))
             IN  [s1 EXCEPT !.attempts = @ + AttemptIncrement(event),
                            !.scores = sc,
                            !.average_score = Some(MeanRounded(sc))]
        ELSE IF event.event_type = "quiz_attempted"
        THEN [s1 EXCEPT !.attempts = @ + AttemptIncrement(event)]
        ELSE IF event.event_type = "topic_completed"
        THEN [s1 EXCEPT !.status = "Completed"]
        ELSE IF event.event_type = "session_duration_minutes"
                /\ ~IsNone(event.duration_minutes)
        THEN [s1 EXCEPT !.total_time_minutes = @ + Val(event.duration_minutes)]
        ELSE IF event.event_type = "needs_review"
        THEN [s1 EXCEPT !.status = "Needs Review"]
        ELSE s1

\* TopicProgressData.update_progress
update_progress(self, event) ==
    LET s0 == [self EXCEPT !.last_updated = event.timestamp,
                           !.last_activity_type = Some(event.event_type)]
        s1 == IF s0.status = "Not Started"
              THEN [s0 EXCEPT !.status = "In Progress"] ELSE s0
    IN  IF event.event_type = "quiz_attempted" /\ ~IsNone(event.score)
        THEN LET sc == Append(s1.scores, Val(event.score))
             IN  [s1 EXCEPT !.attempts = @ + AttemptIncrement(event),
                            !.scores = sc,
                            !.average_score =
                                IF sc # <<>> THEN Some(MeanRounded(sc)) ELSE None]
        ELSE IF event.event_type = "topic_completed"
        THEN [s1 EXCEPT !.status = "Completed"]
        ELSE IF event.event_type = "session_duration_minutes"
                /\ ~IsNone(event.duration_minutes)
        THEN [s1 EXCEPT !.total_time_minutes = @ + Val(event.duration_minutes)]
        ELSE IF event.event_type = "needs_review"
        THEN [s1 EXCEPT !.status = "Needs Review"]
        ELSE s1

\* ----------------------------------------------------------- requests
Opt(S) == {None} \cup {Some(x) : x \in S}

\* ProgressEventInput values accepted by the boundary validation.  The set is
\* thinned to keep the search small: events are reported for the pairs of
\* Slots; an attempt count accompanies only a quiz with the highest score, a
\* duration only a session event; of the kinds other than quiz_attempted only
\* topic_completed carries a score, the lowest one.
LowScore == CHOOSE x \in Scores : \A y \in Scores : x <= y
HighScore == CHOOSE x \in Scores : \A y \in Scores : x >= y
Events ==
    {e \in [student_id : Students, topic_id : Topics, event_type : EventTypes,
            timestamp : Timestamps, score : Opt(Scores),
            duration_minutes : Opt(Durations), details : Opt(AttemptCounts)] :
        /\ <<e.student_id, e.topic_id>> \in Slots
        /\ ~IsNone(e.details) =>
               e.event_type = "quiz_attempted" /\ e.score = Some(HighScore)
        /\ ~IsNone(e.duration_minutes) => e.event_type = "session_duration_minutes"
        /\ (~IsNone(e.score) /\ e.event_type # "quiz_attempted") =>
               e.score = Some(LowScore) /\ e.event_type = "topic_completed"}

\* StudentProgressSettings payloads accepted by the boundary validation
SettingsPayloads ==
    [student_id : Students, success_threshold : Thresholds, learning_goals : Goals]

\* ---------------------------------------------------------- processor.py
\* topic_id in student_data / student_data[topic_id] on the ordered dict
TopicIds(student_data) == {student_data[i].topic_id : i \in DOMAIN student_data}
IndexOf(student_data, topic_id) ==
    CHOOSE i \in DOMAIN student_data : student_data[i].topic_id = topic_id
Lookup(student_data, topic_id) ==
    IF topic_id \in TopicIds(student_data)
    THEN Some(student_data[IndexOf(student_data, topic_id)]) ELSE None

\* self.student_settings_db.get(student_id, StudentProgressSettings(student_id=student_id))
SettingsOrDefault(db, student_id) ==
    IF IsNone(db[student_id]) THEN DefaultSettings(student_id) ELSE Val(db[student_id])

\* faulty variant: a score equal to the threshold triggers the review too
BelowThreshold_AtOrBelow(score, threshold) == score <= threshold

\* the comparison that decides the review trigger
BelowThreshold(score, threshold) == score < threshold

\* faulty variant: the trigger is raised but the status is left as it was
AppliedRecord_NoStatus(db, settings_db, event) ==
    LET student_data == db[event.student_id]
        created == IF event.topic_id \in TopicIds(student_data) THEN student_data
                   ELSE Append(student_data, NewTopicProgressData(event.topic_id))
        topic_progress == update_progress(
            created[IndexOf(created, event.topic_id)], event)
        threshold == SettingsOrDefault(settings_db, event.student_id).success_threshold
        needs_review == event.event_type = "quiz_attempted" /\ ~IsNone(event.score)
                        /\ Val(event.score) < threshold
    IN  [record |-> topic_progress,
         index |-> IndexOf(created, event.topic_id),
         created |-> created,
         needs_review |-> needs_review,
         threshold |-> threshold]

\* faulty variant: the threshold check looks at the score of any event kind
AppliedRecord_AnyKind(db, settings_db, event) ==
    LET student_data == db[event.student_id]
        created == IF event.topic_id \in TopicIds(student_data) THEN student_data
                   ELSE Append(student_data, NewTopicProgressData(event.topic_id))
        topic_progress == update_progress(
            created[IndexOf(created, event.topic_id)], event)
        threshold == SettingsOrDefault(settings_db, event.student_id).success_threshold
        needs_review == IF IsNone(event.score) THEN FALSE
                        ELSE BelowThreshold(Val(event.score), threshold)
    IN  [record |-> IF needs_review
                    THEN [topic_progress EXCEPT !.status = "Needs Review"]
                    ELSE topic_progress,
         index |-> IndexOf(created, event.topic_id),
         created |-> created,
         needs_review |-> needs_review,
         threshold |-> threshold]

\* the topic record update_topic_progress stores for the event
AppliedRecord(db, settings_db, event) ==
    LET student_data == db[event.student_id]
        created == IF event.topic_id \in TopicIds(student_data) THEN student_data
                   ELSE Append(student_data, NewTopicProgressData(event.topic_id))
        topic_progress == update_progress(
            created[IndexOf(created, event.topic_id)], event)
        threshold == SettingsOrDefault(settings_db, event.student_id).success_threshold
        needs_review == event.event_type = "quiz_attempted" /\ ~IsNone(event.score)
                        /\ BelowThreshold(Val(event.score), threshold)
    IN  [record |-> IF needs_review
                    THEN [topic_progress EXCEPT !.status = "Needs Review"]
                    ELSE topic_progress,
         index |-> IndexOf(created, event.topic_id),
         created |-> created,
         needs_review |-> needs_review,
         threshold |-> threshold]

\* a request handled while a summary is suspended in llm.ainvoke
MayInterleave ==
    IF IsNone(pending) THEN TRUE ELSE Val(pending).interleaved < MaxInterleaved
Interleaved ==
    pending' = IF IsNone(pending) THEN pending
               ELSE Some([Val(pending) EXCEPT !.interleaved = @ + 1])

Init ==
    /\ progress_db = [s \in Students |-> <<>>]
    /\ student_settings_db = [s \in Students |-> None]
    /\ LLM_AVAILABLE \in BOOLEAN
    /\ llm_responds \in IF LLM_AVAILABLE THEN BOOLEAN ELSE {TRUE}
    /\ pending = None
    /\ last = [op |-> "init"]
    /\ ops = 0

\* faulty variant: a call that follows a call for the same pair works on the
\* record as it was before that call and stores its own result over it
update_topic_progress_StaleRecord(event) ==
    /\ ops < MaxOps
    /\ MayInterleave
    /\ LET student_data == progress_db[event.student_id]
           stale == /\ last.op = "update"
                    /\ last.event.student_id = event.student_id
                    /\ last.event.topic_id = event.topic_id
           read == IF ~stale THEN student_data
                   ELSE IF IsNone(last.before)
                   THEN SubSeq(student_data, 1, Len(student_data) - 1)
                   ELSE [student_data EXCEPT
                            ![IndexOf(student_data, event.topic_id)] = Val(last.before)]
           a == AppliedRecord([progress_db EXCEPT ![event.student_id] = read],
                              student_settings_db, event)
       IN  /\ progress_db' = [progress_db EXCEPT ![event.student_id] =
                                 [a.created EXCEPT ![a.index] = a.record]]
           /\ last' = [op |-> "update", event |-> event,
                       before |-> Lookup(progress_db[event.student_id], event.topic_id),
                       threshold |-> a.threshold,
                       needs_review |-> a.needs_review]
    /\ ops' = ops + 1
    /\ Interleaved
    /\ UNCHANGED <<student_settings_db, LLM_AVAILABLE, llm_responds>>

\* ProgressProcessor.update_topic_progress.  The coroutine contains no await,
\* so the event loop runs it from its first statement to its last without
\* switching to another task: calls dispatched concurrently run one after the
\* other, each as one atomic step.
update_topic_progress(event) ==
    /\ ops < MaxOps
    /\ MayInterleave
    /\ LET a == AppliedRecord(progress_db, student_settings_db, event)
       IN  /\ progress_db' = [progress_db EXCEPT ![event.student_id] =
                                 [a.created EXCEPT ![a.index] = a.record]]
           /\ last' = [op |-> "update", event |-> event,
                       before |-> Lookup(progress_db[event.student_id], event.topic_id),
                       threshold |-> a.threshold,
                       needs_review |-> a.needs_review]
    /\ ops' = ops + 1
    /\ Interleaved
    /\ UNCHANGED <<student_settings_db, LLM_AVAILABLE, llm_responds>>

\* faulty variant: the payload is stored without comparing the two ids
save_settings_Unchecked(student_id, settings) ==
    /\ ops < MaxOps
    /\ MayInterleave
    /\ student_settings_db' =
           [student_settings_db EXCEPT ![student_id] = Some(settings)]
    /\ last' = [op |-> "save_settings", student_id |-> student_id,
                settings |-> settings, error |-> "ok",
                before |-> student_settings_db[student_id],
                result |-> settings]
    /\ ops' = ops + 1
    /\ Interleaved
    /\ UNCHANGED <<progress_db, LLM_AVAILABLE, llm_responds>>

\* ProgressProcessor.save_settings behind save_student_settings_endpoint
save_settings(student_id, settings) ==
    /\ ops < MaxOps
    /\ MayInterleave
    /\ IF student_id # settings.student_id
       THEN /\ last' = [op |-> "save_settings", student_id |-> student_id,
                        settings |-> settings, error |-> "ValidationError"]
            /\ UNCHANGED student_settings_db
       ELSE /\ student_settings_db' =
                   [student_settings_db EXCEPT ![student_id] = Some(settings)]
            /\ last' = [op |-> "save_settings", student_id |-> student_id,
                        settings |-> settings, error |-> "ok",
                        before |-> student_settings_db[student_id],
                        result |-> settings]
    /\ ops' = ops + 1
    /\ Interleaved
    /\ UNCHANGED <<progress_db, LLM_AVAILABLE, llm_responds>>

\* faulty variant: the defaults handed out for an absent student are stored
get_settings_Persisting(student_id) ==
    /\ MayInterleave
    /\ last' = [op |-> "get_settings", student_id |-> student_id,
                result |-> SettingsOrDefault(student_settings_db, student_id)]
    /\ student_settings_db' =
           [student_settings_db EXCEPT ![student_id] =
               Some(SettingsOrDefault(student_settings_db, student_id))]
    /\ Interleaved
    /\ UNCHANGED <<progress_db, LLM_AVAILABLE, llm_responds, ops>>

\* ProgressProcessor.get_settings behind get_student_settings_endpoint
get_settings(student_id) ==
    /\ MayInterleave
    /\ last' = [op |-> "get_settings", student_id |-> student_id,
                result |-> IF ~IsNone(student_settings_db[student_id])
                           THEN Val(student_settings_db[student_id])
                           ELSE DefaultSettings(student_id)]
    /\ Interleaved
    /\ UNCHANGED <<progress_db, student_settings_db, LLM_AVAILABLE, llm_responds, ops>>

\* faulty variant: only the status decides whether a topic is weak
RECURSIVE Metrics_StatusOnly(_, _)
Metrics_StatusOnly(topics_progress_list, threshold) ==
    IF topics_progress_list = <<>>
    THEN [completed_topics |-> 0, all_scores |-> <<>>, total_study_time |-> 0,
          identified_weaknesses |-> <<>>]
    ELSE LET n == Len(topics_progress_list)
             m == Metrics_StatusOnly(SubSeq(topics_progress_list, 1, n - 1), threshold)
             topic == topics_progress_list[n]
         IN  [completed_topics |-> m.completed_topics
                  + (IF topic.status = "Completed" THEN 1 ELSE 0),
              all_scores |-> m.all_scores \o topic.scores,
              total_study_time |-> m.total_study_time + topic.total_time_minutes,
              identified_weaknesses |->
                  IF topic.status = "Needs Review"
                  THEN Append(m.identified_weaknesses, topic.topic_id)
                  ELSE m.identified_weaknesses]

\* faulty variant: all_scores is overwritten by each topic's scores
RECURSIVE Metrics_LastTopicScores(_, _)
Metrics_LastTopicScores(topics_progress_list, threshold) ==
    IF topics_progress_list = <<>>
    THEN [completed_topics |-> 0, all_scores |-> <<>>, total_study_time |-> 0,
          identified_weaknesses |-> <<>>]
    ELSE LET n == Len(topics_progress_list)
             m == Metrics_LastTopicScores(SubSeq(topics_progress_list, 1, n - 1),
                                          threshold)
             topic == topics_progress_list[n]
         IN  [completed_topics |-> m.completed_topics
                  + (IF topic.status = "Completed" THEN 1 ELSE 0),
              all_scores |-> IF topic.scores # <<>> THEN topic.scores
                             ELSE m.all_scores,
              total_study_time |-> m.total_study_time + topic.total_time_minutes,
              identified_weaknesses |->
                  IF \/ topic.status = "Needs Review"
                     \/ /\ ~IsNone(topic.average_score)
                        /\ Val(topic.average_score) < 10 * threshold
                  THEN Append(m.identified_weaknesses, topic.topic_id)
                  ELSE m.identified_weaknesses]

\* the loop of get_progress_summary over topics_progress_list (lines 176-184)
RECURSIVE Metrics(_, _)
Metrics(topics_progress_list, threshold) ==
    IF topics_progress_list = <<>>
    THEN [completed_topics |-> 0, all_scores |-> <<>>, total_study_time |-> 0,
          identified_weaknesses |-> <<>>]
    ELSE LET n == Len(topics_progress_list)
             m == Metrics(SubSeq(topics_progress_list, 1, n - 1), threshold)
             topic == topics_progress_list[n]
         IN  [completed_topics |-> m.completed_topics
                  + (IF topic.status = "Completed" THEN 1 ELSE 0),
              all_scores |-> m.all_scores \o topic.scores,
              total_study_time |-> m.total_study_time + topic.total_time_minutes,
              identified_weaknesses |->
                  IF \/ topic.status = "Needs Review"
                     \/ /\ ~IsNone(topic.average_score)
                        /\ Val(topic.average_score) < 10 * threshold
                  THEN Append(m.identified_weaknesses, topic.topic_id)
                  ELSE m.identified_weaknesses]

\* faulty variant: the percentage cut to one decimal instead of rounded
OverallCompletion_Truncated(completed_topics, total_topics) ==
    IF total_topics > 0 THEN (1000 * completed_topics) \div total_topics ELSE 0

\* round(completed_topics / total_topics * 100, 1), 0.0 without topics
OverallCompletion(completed_topics, total_topics) ==
    IF total_topics > 0 THEN Round1(completed_topics * 100, total_topics) ELSE 0

\* round(statistics.mean(all_scores), 1) if all_scores else None
OverallAverage(all_scores) ==
    IF all_scores # <<>> THEN Some(MeanRounded(all_scores)) ELSE None

SeqToSet(q) == {q[i] : i \in DOMAIN q}

\* list(set(xs)): the distinct elements in an order the hash seed decides
ListOfSet(xs) ==
    {q \in [1..Cardinality(SeqToSet(xs)) -> SeqToSet(xs)] : SeqToSet(q) = SeqToSet(xs)}

\* what a summary request remembers of the request handled just before it:
\* the topic of this student that request flagged for review, if it did
FlaggedJustBefore(student_id) ==
    IF last.op = "update" /\ last.needs_review /\ last.event.student_id = student_id
    THEN Some(last.event.topic_id) ELSE None

\* the locals of get_progress_summary computed before the LLM branch
Computed(student_id) ==
    LET student_topic_data == progress_db[student_id]
        settings == SettingsOrDefault(student_settings_db, student_id)
        m == Metrics(student_topic_data, settings.success_threshold)
    IN  [student_id |-> student_id,
         topic_refs |-> [i \in DOMAIN student_topic_data |->
                            student_topic_data[i].topic_id],
         overall_completion |->
             OverallCompletion(m.completed_topics, Len(student_topic_data)),
         overall_avg_score |-> OverallAverage(m.all_scores),
         total_study_time |-> m.total_study_time,
         identified_weaknesses |-> m.identified_weaknesses,
         seen |-> student_topic_data,
         threshold |-> settings.success_threshold,
         flagged |-> FlaggedJustBefore(student_id),
         interleaved |-> 0]

\* ProgressSummaryOutput(...) built at the return statement: topics_progress
\* holds the stored topic objects themselves, read when the output is built
Returned(c, llm_insight_text, weaknesses) ==
    [op |-> "summary", student_id |-> c.student_id, error |-> "ok",
     overall_completion_percent |-> c.overall_completion,
     average_score_all |-> c.overall_avg_score,
     total_study_time_minutes |-> c.total_study_time,
     topics_progress |-> [i \in DOMAIN c.topic_refs |->
         Val(Lookup(progress_db[c.student_id], c.topic_refs[i]))],
     identified_weaknesses |-> weaknesses,
     llm_insights |-> llm_insight_text,
     seen |-> c.seen, threshold |-> c.threshold, flagged |-> c.flagged]

\* llm_insights: response.content.strip() of an answered call (its text is not
\* modelled) and the two fallback texts
Generated == "response.content.strip()"
ErrorFallback == "Could not generate insights at this time due to an error."
Unavailable == "LLM insights feature not available."

\* faulty variant: a student without topic records is unknown
Unknown_NoRecords(student_id) == progress_db[student_id] = <<>>

\* not student_topic_data and student_id not in self.student_settings_db
Unknown(student_id) ==
    progress_db[student_id] = <<>> /\ IsNone(student_settings_db[student_id])

\* get_progress_summary up to its return, raise or await (lines 164-202)
get_progress_summary(student_id) ==
    /\ IsNone(pending)
    /\ IF Unknown(student_id)
       THEN /\ last' = [op |-> "summary", student_id |-> student_id,
                        error |-> "NotFound"]
            /\ UNCHANGED pending
       ELSE IF LLM_AVAILABLE
       THEN /\ pending' = Some(Computed(student_id))
            /\ last' = [op |-> "summary_begin", student_id |-> student_id]
       ELSE /\ \E w \in ListOfSet(Computed(student_id).identified_weaknesses) :
                   last' = Returned(Computed(student_id), Unavailable, w)
            /\ UNCHANGED pending
    /\ UNCHANGED <<progress_db, student_settings_db, LLM_AVAILABLE, llm_responds, ops>>

\* faulty variant: a failure of llm.ainvoke fails the request
llm_done_Propagating(outcome) ==
    /\ ~IsNone(pending)
    /\ llm_responds
    /\ IF outcome = "ok"
       THEN \E w \in ListOfSet(Val(pending).identified_weaknesses) :
                last' = Returned(Val(pending), Generated, w)
       ELSE last' = [op |-> "summary", student_id |-> Val(pending).student_id,
                     error |-> "InternalError"]
    /\ pending' = None
    /\ UNCHANGED <<progress_db, student_settings_db, LLM_AVAILABLE, llm_responds, ops>>

\* get_progress_summary from the completion of llm.ainvoke, with a response
\* or with an exception, to the return (lines 202-216); the await has no
\* timeout, so the coroutine resumes only when the service answers
llm_done(outcome) ==
    /\ ~IsNone(pending)
    /\ llm_responds
    /\ \E w \in ListOfSet(Val(pending).identified_weaknesses) :
           last' = Returned(Val(pending),
                            IF outcome = "ok" THEN Generated ELSE ErrorFallback, w)
    /\ pending' = None
    /\ UNCHANGED <<progress_db, student_settings_db, LLM_AVAILABLE, llm_responds, ops>>

\* the event is for a topic the student has, or for the next unused topic id
InOrderOfFirstUse(event) ==
    LET student_data == progress_db[event.student_id]
    IN  \/ event.topic_id \in TopicIds(student_data)
        \/ /\ Len(student_data) < Len(TopicOrder)
           /\ event.topic_id = TopicOrder[Len(student_data) + 1]

Next ==
    \/ \E event \in Events :
           InOrderOfFirstUse(event) /\ update_topic_progress(event)
    \/ \E student_id \in Students, settings \in SettingsPayloads :
           save_settings(student_id, settings)
    \/ \E student_id \in Students : get_settings(student_id)
    \/ \E student_id \in Students : get_progress_summary(student_id)
    \/ \E outcome \in {"ok", "error"} : llm_done(outcome)

Spec == Init /\ [][Next]_vars

\* The event loop resumes a coroutine once the call it awaits has completed:
\* a summary suspended in llm.ainvoke continues when the service has answered.
\* Nothing obliges clients to send requests or the service to answer.
FairSpec == Spec /\ WF_vars(\E outcome \in {"ok", "error"} : llm_done(outcome))

\* ======================================================================
\* Properties
\* ======================================================================
\* the stored record of (student_id, topic_id); only used where it exists
Rec(student_id, topic_id) == Val(Lookup(progress_db[student_id], topic_id))

\* the success threshold in force for a student: the saved one, else the default
InForce(student_id) ==
    IF student_settings_db[student_id] = <<>> THEN 80
    ELSE student_settings_db[student_id][1].success_threshold

\* the last request applied an event; Now is the record it left, StatusBefore
\* the status the topic had when the event arrived
Applied == last.op = "update"
Now == Rec(last.event.student_id, last.event.topic_id)
StatusBefore ==
    IF last.before = <<>> THEN "Not Started" ELSE last.before[1].status
IsQuizWithScore(e) == e.event_type = "quiz_attempted" /\ e.score # <<>>
IsLowQuiz(e) == IsQuizWithScore(e) /\ e.score[1] < InForce(e.student_id)

\* C1 as claimed: once a topic is Completed, no event other than
\* topic_completed moves its status out of Completed.
C1_NonCompletingKeepsCompleted ==
    (Applied /\ StatusBefore = "Completed"
        /\ last.event.event_type # "topic_completed")
    => Now.status = "Completed"

\* C1 amended: once a topic is Completed, an event that is neither
\* topic_completed nor needs_review nor a quiz_attempted scored below the
\* threshold in force leaves it Completed; a needs_review event and a quiz
\* scored below the threshold move it to Needs Review, never to another status.
C1_CompletedLeftOnlyForNeedsReview ==
    (Applied /\ StatusBefore = "Completed"
        /\ last.event.event_type # "topic_completed")
    => IF last.event.event_type = "needs_review" \/ IsLowQuiz(last.event)
       THEN Now.status = "Needs Review"
       ELSE Now.status = "Completed"

\* C1 witness: a Completed topic received a quiz scored at or above the
\* threshold in force and is still Completed.
C1_Witness ==
    /\ Applied /\ StatusBefore = "Completed"
    /\ IsQuizWithScore(last.event) /\ ~IsLowQuiz(last.event)
    /\ Now.status = "Completed"

\* C2: after a topic_completed event the topic's status is Completed,
\* whatever it was before and whatever the student's threshold setting.
C2_CompletedEventCompletes ==
    (Applied /\ last.event.event_type = "topic_completed")
    => Now.status = "Completed"

\* C2 witness: a topic in Needs Review, of a student with saved settings,
\* received topic_completed carrying a score below the threshold.
C2_Witness ==
    /\ Applied /\ last.event.event_type = "topic_completed"
    /\ StatusBefore = "Needs Review"
    /\ last.event.score # <<>> /\ last.event.score[1] < InForce(last.event.student_id)
    /\ student_settings_db[last.event.student_id] # <<>>
    /\ Now.status = "Completed"

\* C4: an event never changes Completed or Needs Review into In Progress (a
\* topic becomes In Progress only from Not Started); a topic becomes Completed
\* only by topic_completed, and becomes Needs Review only by a needs_review
\* event or by a quiz scored below the threshold in force.
C4_StickyStatuses ==
    Applied =>
        /\ StatusBefore \in {"Completed", "Needs Review"} => Now.status # "In Progress"
        /\ (Now.status = "In Progress" /\ StatusBefore # "In Progress")
               => StatusBefore = "Not Started"
        /\ (Now.status = "Completed" /\ StatusBefore # "Completed")
               => last.event.event_type = "topic_completed"
        /\ (Now.status = "Needs Review" /\ StatusBefore # "Needs Review")
               => (last.event.event_type = "needs_review" \/ IsLowQuiz(last.event))
        /\ Now.status # "Not Started"

\* C4 witness: a topic in Needs Review received a quiz scored at or above the
\* threshold and stayed in Needs Review.
C4_Witness ==
    /\ Applied /\ StatusBefore = "Needs Review"
    /\ IsQuizWithScore(last.event) /\ ~IsLowQuiz(last.event)
    /\ Now.status = "Needs Review"

\* C3: a quiz scored below the threshold in force leaves the topic in Needs
\* Review and raises the review trigger, and the summary requested by the
\* very next request for that student lists the topic among the weaknesses.
C3_LowQuizFlagsAndIsReported ==
    /\ (Applied /\ IsLowQuiz(last.event))
           => (Now.status = "Needs Review" /\ last.needs_review)
    /\ (Applied /\ last.needs_review) => IsLowQuiz(last.event)
    /\ (last.op = "summary" /\ last.error = "ok" /\ last.flagged # <<>>)
           => \E i \in DOMAIN last.identified_weaknesses :
                  last.identified_weaknesses[i] = last.flagged[1]

\* C3 witness: a student saved a threshold other than the default, a quiz
\* scored below it but not below the default was applied, and the summary
\* requested next was returned listing the topic.
C3_Witness ==
    /\ last.op = "summary" /\ last.error = "ok" /\ last.flagged # <<>>
    /\ last.threshold > 80
    /\ \E i \in DOMAIN last.seen :
           /\ last.seen[i].topic_id = last.flagged[1]
           /\ last.seen[i].scores[Len(last.seen[i].scores)] >= 80
           /\ last.seen[i].status = "Needs Review"
    /\ \E i \in DOMAIN last.identified_weaknesses :
           last.identified_weaknesses[i] = last.flagged[1]

Abs(x) == IF x < 0 THEN -x ELSE x

\* tenths is a multiple of 0.1 nearest to num / den
NearestTenth(tenths, num, den) == 2 * Abs(den * tenths - 10 * num) <= den

StoredRecords ==
    UNION {{progress_db[s][i] : i \in DOMAIN progress_db[s]} : s \in Students}

\* C5: every stored topic record has average_score None exactly when it has
\* no scores, and otherwise average_score is the mean of its scores rounded
\* to one decimal.
C5_AverageMatchesScores ==
    \A r \in StoredRecords :
        /\ r.average_score = <<>> <=> r.scores = <<>>
        /\ r.scores # <<>> =>
               NearestTenth(r.average_score[1], SumSeq(r.scores), Len(r.scores))

\* C5 witness: a record holds three scores whose mean is not a multiple of 0.1.
C5_Witness ==
    \E r \in StoredRecords :
        /\ Len(r.scores) = 3
        /\ (10 * SumSeq(r.scores)) % 3 # 0
        /\ r.average_score # <<>>

ScoresOf(db, student_id, topic_id) ==
    IF Lookup(db[student_id], topic_id) = <<>> THEN <<>>
    ELSE Lookup(db[student_id], topic_id)[1].scores

\* C6: in every step, the scores of every (student, topic) grow by exactly the
\* score of a quiz_attempted event applied to that pair in that step, appended
\* at the end, and are unchanged otherwise; so the sequence always is the
\* scores of the scored quiz events of the pair in arrival order.
C6_ScoresAppendOnly ==
    [][\A student_id \in Students, topic_id \in Topics :
          IF /\ last'.op = "update"
             /\ last'.event.student_id = student_id
             /\ last'.event.topic_id = topic_id
             /\ IsQuizWithScore(last'.event)
          THEN ScoresOf(progress_db', student_id, topic_id) =
                   Append(ScoresOf(progress_db, student_id, topic_id),
                          last'.event.score[1])
          ELSE ScoresOf(progress_db', student_id, topic_id) =
                   ScoresOf(progress_db, student_id, topic_id)]_vars

\* C6 witness: a topic that held one score received a quiz with a different
\* score and now holds the two in arrival order.
C6_Witness ==
    /\ Applied /\ IsQuizWithScore(last.event)
    /\ last.before # <<>> /\ Len(last.before[1].scores) = 1
    /\ last.before[1].scores[1] # last.event.score[1]
    /\ Now.scores = <<last.before[1].scores[1], last.event.score[1]>>

\* a summary was returned without error; its fields are in last
ReturnedOk == last.op = "summary" /\ last.error = "ok"

\* the records and the threshold a summary was computed from are the stored
\* ones of the moment get_progress_summary read them
ComputedFromStore ==
    /\ last.op = "summary_begin" =>
           /\ Val(pending).seen = progress_db[last.student_id]
           /\ Val(pending).threshold = InForce(last.student_id)
    /\ (ReturnedOk /\ ~LLM_AVAILABLE) =>
           /\ last.seen = progress_db[last.student_id]
           /\ last.threshold = InForce(last.student_id)

\* C7: a summary request fails with NotFound exactly when the student has
\* neither saved settings nor a topic record; a failed request changes
\* neither store; a student with saved settings and no events gets a summary
\* with completion 0.0, no overall average and no topics.
C7_NotFoundExactlyForUnknown ==
    [][/\ (last'.op = "summary" /\ last'.error = "NotFound") =>
              /\ progress_db[last'.student_id] = <<>>
              /\ student_settings_db[last'.student_id] = <<>>
              /\ UNCHANGED <<progress_db, student_settings_db>>
       /\ (last'.op = "summary_begin" \/ (last'.op = "summary" /\ last'.error = "ok")) =>
              ~(/\ progress_db[last'.student_id] = <<>>
                /\ student_settings_db[last'.student_id] = <<>>)
       /\ (last'.op = "summary" /\ last'.error = "ok" /\ last'.seen = <<>>) =>
              /\ last'.overall_completion_percent = 0
              /\ last'.average_score_all = <<>>
              /\ last'.topics_progress = <<>>]_vars

\* C7 witness: a student with saved settings and no events was returned a
\* summary with completion 0.0, no average and no topics.
C7_Witness ==
    /\ ReturnedOk /\ last.seen = <<>>
    /\ student_settings_db[last.student_id] # <<>>
    /\ progress_db[last.student_id] = <<>>
    /\ last.overall_completion_percent = 0
    /\ last.average_score_all = <<>>
    /\ last.topics_progress = <<>>

\* the topics a summary has to report as weak
WeakTopic(r, threshold) ==
    \/ r.status = "Needs Review"
    \/ r.average_score # <<>> /\ r.average_score[1] < 10 * threshold
WeakSet(records, threshold) ==
    {records[i].topic_id : i \in {j \in DOMAIN records : WeakTopic(records[j], threshold)}}

\* C8: identified_weaknesses of a returned summary has no duplicate and holds
\* exactly the topics of the student that, when the summary was computed,
\* were in Needs Review or had an average below the threshold then in force.
C8_WeaknessesExact ==
    /\ ComputedFromStore
    /\ ReturnedOk =>
           /\ \A i, j \in DOMAIN last.identified_weaknesses :
                  last.identified_weaknesses[i] = last.identified_weaknesses[j] => i = j
           /\ SeqToSet(last.identified_weaknesses) = WeakSet(last.seen, last.threshold)

\* C8 witness: a returned summary lists a topic that is weak by status only
\* and one that is weak by average only.
C8_Witness ==
    /\ ReturnedOk
    /\ \E i, j \in DOMAIN last.seen :
           /\ last.seen[i].status = "Needs Review"
           /\ last.seen[i].average_score = <<>>
           /\ last.seen[j].status # "Needs Review"
           /\ last.seen[j].average_score # <<>>
           /\ {last.seen[i].topic_id, last.seen[j].topic_id}
                  \subseteq SeqToSet(last.identified_weaknesses)

CompletedCount(records) ==
    Cardinality({i \in DOMAIN records : records[i].status = "Completed"})

\* C9: overall_completion_percent of a returned summary is the share of the
\* student's topics that are Completed, times 100, rounded to one decimal;
\* 0.0 without topics and 50.0 for one Completed topic of two.
C9_CompletionPercent ==
    ReturnedOk =>
        LET total == Len(last.seen)
            done == CompletedCount(last.seen)
            pct == last.overall_completion_percent
        IN  /\ total = 0 => pct = 0
            /\ total > 0 => NearestTenth(pct, 100 * done, total)
            /\ (total = 2 /\ done = 1) => pct = 500

\* C9 witness: a returned summary over three topics, two of them Completed,
\* reports 66.7.
C9_Witness ==
    /\ ReturnedOk
    /\ Len(last.seen) = 3 /\ CompletedCount(last.seen) = 2
    /\ last.overall_completion_percent = 667

ScoreCount(records) == SumSeq([i \in DOMAIN records |-> Len(records[i].scores)])
ScoreSum(records) == SumSeq([i \in DOMAIN records |-> SumSeq(records[i].scores)])

\* C10: average_score_all of a returned summary is the mean of all scores of
\* all the student's topics, rounded to one decimal, and None exactly when
\* no topic has a score.
C10_OverallAverage ==
    ReturnedOk =>
        /\ last.average_score_all = <<>> <=> ScoreCount(last.seen) = 0
        /\ ScoreCount(last.seen) > 0 =>
               NearestTenth(last.average_score_all[1],
                            ScoreSum(last.seen), ScoreCount(last.seen))

\* C10 witness: a returned summary over a topic with one score and a topic
\* with two, where the mean of all scores differs from the mean of the two
\* topic averages.
C10_Witness ==
    /\ ReturnedOk /\ Len(last.seen) = 2
    /\ \E i, j \in DOMAIN last.seen :
           /\ Len(last.seen[i].scores) = 1 /\ Len(last.seen[j].scores) = 2
           /\ last.seen[i].average_score # last.seen[j].average_score
           /\ 2 * last.average_score_all[1] #
                  last.seen[i].average_score[1] + last.seen[j].average_score[1]

\* C11: reading never stores settings: the settings store changes only in a
\* save_settings request that succeeds, and only in the entry of the student
\* it names (so get_settings, update_topic_progress and both halves of
\* get_progress_summary leave it unchanged and a student is in the store only
\* after an explicit save); get_settings for a student not in the store
\* returns the defaults, threshold 80 and no goals.
C11_ReadingNeverPersistsSettings ==
    [][/\ \A s \in Students :
              student_settings_db'[s] # student_settings_db[s] =>
                  /\ last'.op = "save_settings" /\ last'.error = "ok"
                  /\ last'.student_id = s
                  /\ student_settings_db'[s] = <<last'.settings>>
       /\ last'.op \in {"get_settings", "update", "summary", "summary_begin"} =>
              student_settings_db' = student_settings_db
       /\ (last'.op = "get_settings" /\ student_settings_db[last'.student_id] = <<>>) =>
              /\ last'.result = [student_id |-> last'.student_id,
                                 success_threshold |-> 80,
                                 learning_goals |-> <<>>]
              /\ student_settings_db'[last'.student_id] = <<>>]_vars

\* C11 witness: a student with topic records and no saved settings, while the
\* other student has saved settings, asked for its settings, got the defaults
\* and is still absent from the settings store.
C11_Witness ==
    /\ last.op = "get_settings"
    /\ progress_db[last.student_id] # <<>>
    /\ student_settings_db[last.student_id] = <<>>
    /\ \E s \in Students : student_settings_db[s] # <<>>
    /\ last.result.success_threshold = 80 /\ last.result.learning_goals = <<>>

\* C12: a save_settings request whose payload names another student than the
\* request fails with a validation error and changes neither store; one
\* whose ids agree stores the payload as that student's settings, whatever
\* was stored for the student before, leaves every other entry and the
\* progress store alone, and returns the payload.
C12_SaveSettingsChecksIds ==
    [][last'.op = "save_settings" =>
          IF last'.student_id # last'.settings.student_id
          THEN /\ last'.error = "ValidationError"
               /\ student_settings_db' = student_settings_db
               /\ progress_db' = progress_db
          ELSE /\ last'.error = "ok"
               /\ student_settings_db'[last'.student_id] = <<last'.settings>>
               /\ \A s \in Students \ {last'.student_id} :
                      student_settings_db'[s] = student_settings_db[s]
               /\ progress_db' = progress_db
               /\ last'.result = last'.settings]_vars

\* C12 witness: a student whose settings were saved saved different ones,
\* and the store now holds the later ones.
C12_Witness ==
    /\ last.op = "save_settings" /\ last.error = "ok"
    /\ last.before # <<>> /\ last.before[1] # last.settings
    /\ student_settings_db[last.student_id] = <<last.settings>>
    /\ last.result = last.settings

TimeSum(records) == SumSeq([i \in DOMAIN records |-> records[i].total_time_minutes])

\* C13: a summary request for a known student (saved settings or a topic
\* record) that comes to its end returns a summary and no error: without the
\* text-generation service the insight is the fixed text for that case, with
\* it the insight is the generated text or, when the call failed, the fixed
\* fallback text; whichever of these happened, the metrics are the ones
\* computed from the records and the threshold read before the call.
C13_FallbackInsteadOfFailure ==
    [][(/\ last'.op = "summary"
        /\ \/ pending # <<>>
           \/ progress_db[last'.student_id] # <<>>
           \/ student_settings_db[last'.student_id] # <<>>) =>
          /\ last'.error = "ok"
          /\ IF LLM_AVAILABLE
             THEN last'.llm_insights \in {Generated, ErrorFallback}
             ELSE last'.llm_insights = Unavailable
          /\ last'.seen = IF pending # <<>> THEN pending[1].seen
                          ELSE progress_db[last'.student_id]
          /\ last'.threshold = IF pending # <<>> THEN pending[1].threshold
                               ELSE InForce(last'.student_id)
          /\ Len(last'.seen) = 0 => last'.overall_completion_percent = 0
          /\ Len(last'.seen) > 0 =>
                 NearestTenth(last'.overall_completion_percent,
                              100 * CompletedCount(last'.seen), Len(last'.seen))
          /\ last'.average_score_all = <<>> <=> ScoreCount(last'.seen) = 0
          /\ ScoreCount(last'.seen) > 0 =>
                 NearestTenth(last'.average_score_all[1],
                              ScoreSum(last'.seen), ScoreCount(last'.seen))
          /\ last'.total_study_time_minutes = TimeSum(last'.seen)
          /\ SeqToSet(last'.identified_weaknesses) =
                 WeakSet(last'.seen, last'.threshold)]_vars

\* C13 witness: the text-generation call failed and the summary was returned
\* with the fallback text, an average, study time and a weakness.
C13_Witness ==
    /\ ReturnedOk /\ last.llm_insights = ErrorFallback
    /\ last.average_score_all # <<>>
    /\ last.total_study_time_minutes > 0
    /\ last.identified_weaknesses # <<>>

\* C14 as claimed: every summary request for a known student that has
\* started the text-generation call eventually returns, also when the service
\* never answers.
C14_SummaryEventuallyReturns == (pending # <<>>) ~> (pending = <<>>)

\* the record one call leaves: the kind-specific update, then the threshold check
ApplyOne(r, e, threshold) ==
    LET u == update_progress(r, e)
    IN  IF IsQuizWithScore(e) /\ e.score[1] < threshold
        THEN [u EXCEPT !.status = "Needs Review"] ELSE u
\* the record two calls leave when the call for a runs to its end before the
\* call for b starts
Serial(r, a, b, threshold) == ApplyOne(ApplyOne(r, a, threshold), b, threshold)
RecordBefore == IF last.before = <<>> THEN NewTopicProgressData(last.event.topic_id)
                ELSE last.before[1]
SamePair(a, b) == a.student_id = b.student_id /\ a.topic_id = b.topic_id

\* C15 as claimed: updates for the same (student, topic) can be lost.  For
\* every call that has just run there is a call for the same pair, dispatched
\* with it, that can end in a record different from the two events applied in
\* either order.
C15_ConcurrentUpdateCanBeLost ==
    (Applied /\ ops < MaxOps /\ MayInterleave) =>
        \E e \in Events :
            /\ SamePair(e, last.event)
            /\ ENABLED (/\ update_topic_progress(e)
                        /\ Val(Lookup(progress_db'[e.student_id], e.topic_id)) \notin
                               {Serial(RecordBefore, last.event, e, last.threshold),
                                Serial(RecordBefore, e, last.event, last.threshold)})

\* C15 amended: no update for the same (student, topic) is lost.  When a
\* call for a pair runs right after another call for the same pair, the
\* record it leaves is the one obtained by applying the first event and then
\* the second to the record the first call found.
C15_UpdatesApplyInTurn ==
    [][(/\ last.op = "update" /\ last'.op = "update"
        /\ ops' = ops + 1
        /\ SamePair(last.event, last'.event)) =>
          /\ last'.before = <<ApplyOne(RecordBefore, last.event, last.threshold)>>
          /\ Val(Lookup(progress_db'[last'.event.student_id], last'.event.topic_id)) =
                 ApplyOne(ApplyOne(RecordBefore, last.event, last.threshold),
                          last'.event, last'.threshold)]_vars

\* C15 witness: exactly two requests changed the stores, both of them scored
\* quizzes for the same new pair, the second with an attempt count; the
\* record holds both scores in the order the calls ran and all the attempts.
C15_Witness ==
    /\ Applied /\ ops = 2
    /\ IsQuizWithScore(last.event) /\ last.event.details # <<>>
    /\ last.before # <<>> /\ Len(last.before[1].scores) = 1
    /\ last.before[1].scores[1] # last.event.score[1]
    /\ Now.scores = <<last.before[1].scores[1], last.event.score[1]>>
    /\ Now.attempts = 1 + last.event.details[1]

\* C16: an update request always leaves a record for its (student, topic);
\* when there was none, the record is a new one (attempts 0, no scores, time
\* 0) with the event applied, so a first topic_completed leaves status
\* Completed, attempts 0 and no average; no step removes a record.
C16_FirstEventCreatesRecord ==
    [][/\ \A s \in Students, t \in Topics :
              Lookup(progress_db[s], t) # <<>> => Lookup(progress_db'[s], t) # <<>>
       /\ last'.op = "update" =>
              LET e == last'.event
                  found == Lookup(progress_db[e.student_id], e.topic_id)
                  left == Lookup(progress_db'[e.student_id], e.topic_id)
              IN  /\ left # <<>>
                  /\ last'.before = found
                  /\ found = <<>> =>
                         /\ left[1].topic_id = e.topic_id
                         /\ left[1].attempts =
                                IF ~IsQuizWithScore(e) THEN 0
                                ELSE IF e.details = <<>> THEN 1 ELSE e.details[1]
                         /\ left[1].scores =
                                IF IsQuizWithScore(e) THEN <<e.score[1]>> ELSE <<>>
                         /\ left[1].total_time_minutes =
                                IF /\ e.event_type = "session_duration_minutes"
                                   /\ e.duration_minutes # <<>>
                                THEN e.duration_minutes[1] ELSE 0
                         /\ left[1].status # "Not Started"
                         /\ e.event_type = "topic_completed" =>
                                /\ left[1].status = "Completed"
                                /\ left[1].attempts = 0
                                /\ left[1].average_score = <<>>]_vars

\* C16 witness: the first event of a pair was topic_completed, for a student
\* who already had another topic; the new record is Completed with attempts
\* 0 and no average.
C16_Witness ==
    /\ Applied /\ last.before = <<>>
    /\ last.event.event_type = "topic_completed"
    /\ Len(progress_db[last.event.student_id]) = 2
    /\ Now.status = "Completed" /\ Now.attempts = 0 /\ Now.average_score = <<>>

\* the attempt count an event carries, 1 when it carries none
AttemptCount(e) == IF e.details = <<>> THEN 1 ELSE e.details[1]

\* C17 as claimed: every quiz_attempted event, with or without a score, adds
\* its attempt count (1 when unset) to attempts; without a score the scores
\* and the average stay while status, last activity and timestamp are
\* updated; an event of another kind leaves attempts unchanged.
C17_EveryQuizCountsAsAttempt ==
    Applied =>
        IF last.event.event_type = "quiz_attempted"
        THEN /\ Now.attempts = RecordBefore.attempts + AttemptCount(last.event)
             /\ last.event.score = <<>> =>
                    /\ Now.scores = RecordBefore.scores
                    /\ Now.average_score = RecordBefore.average_score
                    /\ Now.status # "Not Started"
                    /\ Now.last_updated = last.event.timestamp
        ELSE Now.attempts = RecordBefore.attempts

\* C17 amended: attempts is changed only by quiz_attempted events that carry
\* a score: such an event adds its attempt count (1 when unset) to attempts;
\* a quiz_attempted event without a score leaves attempts, scores and average
\* as they were while status (Not Started becomes In Progress), last activity
\* and timestamp are updated; an event of another kind leaves attempts
\* unchanged.
C17_OnlyScoredQuizCountsAsAttempt ==
    Applied =>
        IF IsQuizWithScore(last.event)
        THEN Now.attempts = RecordBefore.attempts + AttemptCount(last.event)
        ELSE /\ Now.attempts = RecordBefore.attempts
             /\ last.event.event_type = "quiz_attempted" =>
                    /\ Now.scores = RecordBefore.scores
                    /\ Now.average_score = RecordBefore.average_score
                    /\ Now.total_time_minutes = RecordBefore.total_time_minutes
                    /\ Now.status = IF RecordBefore.status = "Not Started"
                                    THEN "In Progress" ELSE RecordBefore.status
                    /\ Now.last_activity_type = <<"quiz_attempted">>
                    /\ Now.last_updated = last.event.timestamp

\* C17 witness: a topic with two attempts from one scored quiz received a
\* quiz without a score and still has two attempts and one score.
C17_Witness ==
    /\ Applied /\ last.event.event_type = "quiz_attempted" /\ last.event.score = <<>>
    /\ last.before # <<>> /\ last.before[1].attempts = 2
    /\ Now.attempts = 2 /\ Len(Now.scores) = 1
    /\ Now.last_activity_type = <<"quiz_attempted">>

\* the status the kind-specific update leaves
KindStatus(before, e) ==
    IF e.event_type = "topic_completed" THEN "Completed"
    ELSE IF e.event_type = "needs_review" THEN "Needs Review"
    ELSE IF before = "Not Started" THEN "In Progress" ELSE before

\* C18: an update raises the review trigger exactly when its event is a
\* quiz_attempted with a score strictly below the success threshold the
\* student has at that moment (80 without saved settings), and then the
\* status is Needs Review; in every other case, a score equal to or above
\* the threshold, a needs_review event and every other kind included, no
\* trigger is raised and the status is what the kind-specific update left.
C18_TriggerExactlyBelowThreshold ==
    Applied =>
        /\ last.threshold = InForce(last.event.student_id)
        /\ last.needs_review <=>
               /\ last.event.event_type = "quiz_attempted"
               /\ last.event.score # <<>>
               /\ last.event.score[1] < last.threshold
        /\ last.needs_review => Now.status = "Needs Review"
        /\ ~last.needs_review => Now.status = KindStatus(StatusBefore, last.event)

\* C18 witness: a student without saved settings, on a Completed topic,
\* scored exactly 80 in a quiz: no trigger, the topic is still Completed.
C18_Witness ==
    /\ Applied /\ IsQuizWithScore(last.event)
    /\ student_settings_db[last.event.student_id] = <<>>
    /\ last.event.score[1] = 80 /\ last.threshold = 80
    /\ ~last.needs_review
    /\ StatusBefore = "Completed" /\ Now.status = "Completed"

C20_SummaryIsConsistentSnapshot ==
    ReturnedOk =>
        LET topics == last.topics_progress
        IN  /\ Len(topics) = 0 => last.overall_completion_percent = 0
            /\ Len(topics) > 0 =>
                   NearestTenth(last.overall_completion_percent,
                                100 * CompletedCount(topics), Len(topics))
            /\ last.average_score_all = <<>> <=> ScoreCount(topics) = 0
            /\ ScoreCount(topics) > 0 =>
                   NearestTenth(last.average_score_all[1],
                                ScoreSum(topics), ScoreCount(topics))
            /\ last.total_study_time_minutes = TimeSum(topics)
            /\ SeqToSet(last.identified_weaknesses) = WeakSet(topics, last.threshold)

\* C21: with every attempt count unset or positive (as all counts of
\* AttemptCounts are), every stored topic record has at least as many
\* attempts as scores, and attempts and scores change only together: an
\* applied event that changes one of them is a quiz_attempted with a score,
\* which appends one score and adds at least one attempt.
C21_AttemptsCoverScores ==
    /\ \A n \in AttemptCounts : n >= 1
    /\ \A r \in StoredRecords : r.attempts >= Len(r.scores)
    /\ Applied =>
           IF IsQuizWithScore(last.event)
           THEN /\ Len(Now.scores) = Len(RecordBefore.scores) + 1
                /\ Now.attempts >= RecordBefore.attempts + 1
           ELSE /\ Now.scores = RecordBefore.scores
                /\ Now.attempts = RecordBefore.attempts

\* C21 witness: a record took a quiz without an attempt count and a quiz with
\* the count 2: it holds two scores and three attempts.
C21_Witness ==
    \E r \in StoredRecords : Len(r.scores) = 2 /\ r.attempts = 3

====
